---- MODULE Spec2Model ----
(***************************************************************************)
(* Model of the GhostAgent oracle (src/oracle).                            *)
(*                                                                         *)
(* Part 1: the CRA audit (pure functions of the fetched payload and of the *)
(*         risk service's answer), checked under SpecAudit.                *)
(* Part 2: the monitoring job, handle_intent and execute_tx against a      *)
(*         chain (event log, account nonce, mempool), checked under Spec;  *)
(*         one execute_tx call statement by statement, under SpecTx; the   *)
(*         scheduler's skipped runs and the shutdown, under SpecSched.     *)
(***************************************************************************)
EXTENDS Integers, Sequences, FiniteSets, TLC

VARIABLES
    \* ---- chain and external world
    eventLog,      \* IntentDeclared logs of the contract, in emission order
    headStart,     \* number of logs that lie in blocks older than the latest block
    contractSalt,  \* what CONTRACT_SALT() of the deployed contract returns
    saltChanges,   \* times the contract's answer changed (bounded)
    txCount,       \* get_transaction_count(ORACLE_ADDRESS): mined transactions
    sent,          \* transactions broadcast by send_raw_transaction, in order
    \* ---- the oracle process
    keyUsable,     \* whether ORACLE_PRIVATE_KEY is a key Account.sign_hash accepts
    processed,     \* ghost_oracle.processed
    pc,            \* position of the (single) monitor_job instance
    fltFrom,       \* logs before this index are outside the filter of the tick
    queue,         \* entries of get_new_entries() not yet iterated
    cur,           \* intent hash being handled
    fn,            \* function_name of the execute_tx call in progress
    curNonce,      \* nonce read by the execute_tx call in progress
    curTx,         \* index in sent of the transaction whose receipt is awaited
    \* ---- observation (history) variables
    auditCount,    \* per intent hash: perform_cra_audit calls (capped)
    auditRes,      \* per intent hash: outcome of the last audit
    sigs,          \* signatures made: [h, salt of the contract at signing]
    sigCount,      \* per intent hash: sign_intent calls (capped)
    addCount,      \* per intent hash: processed.add calls (capped)
    delivered,     \* per log index: times passed to handle_intent (capped)
    \* ---- one run of perform_cra_audit on drawn inputs (SpecAudit)
    auditIn,
    auditOut,
    \* ---- one call of execute_tx on drawn inputs (SpecTx)
    txIn,          \* function_name and what estimate_gas returns
    txCall,        \* the call: steps taken, gas limit set, broadcasts, result
    \* ---- the scheduler and the main thread (SpecSched)
    sched,         \* "running" | "stopping" (shutdown() called) | "exited"
    lastDue        \* what became of the latest due run: "started" | "skipped"

chainVars == <<eventLog, headStart, contractSalt, saltChanges, txCount, sent>>
procVars  == <<keyUsable, processed, pc, fltFrom, queue, cur, fn, curNonce, curTx>>
histVars  == <<auditCount, auditRes, sigs, sigCount, addCount, delivered>>
auditVars == <<auditIn, auditOut>>
txVars    == <<txIn, txCall>>
schedVars == <<sched, lastDue>>
vars      == <<chainVars, procVars, histVars, auditVars, txVars, schedVars>>

(***************************************************************************)
(* Part 1.  CRA audit                                                      *)
(***************************************************************************)

\* CRA_CONFIG["time_window_seconds"]
TimeWindow == 300

\* CRA_CONFIG["max_amount_wei"] = 10**18, held as two base-10^9 limbs
\* (hi * 10^9 + lo) because the value does not fit a machine integer.
MaxAmountHi == 1000000000
MaxAmountLo == 0

\* Risk score threshold of _check_external_risk.
RiskThreshold == 70

\* The clock reading (time.time()) of the audit run that is modelled.
Now == 1000

\* CRA_CONFIG["allowed_countries"]; a country code is a sequence of characters.
AllowedCountries ==
    { <<"U", "S">>, <<"C", "A">>, <<"G", "B">>, <<"D", "E">> }

\* str.upper() on one character of the alphabet used by the payloads.
UpperChar(c) ==
    CASE c = "u" -> "U"
      [] c = "s" -> "S"
      [] c = "c" -> "C"
      [] c = "a" -> "A"
      [] c = "f" -> "F"
      [] c = "r" -> "R"
      [] OTHER   -> c

\* str.upper(): character by character.
Upper(s) == [i \in 1..Len(s) |-> UpperChar(s[i])]

\* A JSON value of the payload: absent key, a usable value, or a value of a
\* type/shape the conversion rejects.
\*   timestamp: "missing" | "int" (number or numeric string) | "iso" (ISO-8601
\*              string) | "bad" (null, non-numeric non-ISO string)
\*   amountWei: "missing" | "int" (limbs hi, lo) | "bad"
\*   originCountry: "missing" | "str" (val: characters) | "null"
TsField(kind, val) == [kind |-> kind, val |-> val]
AmtField(kind, hi, lo) == [kind |-> kind, hi |-> hi, lo |-> lo]
CtyField(kind, val) == [kind |-> kind, val |-> val]

\* Outcome of one check: it passes, fails, or raises.
Bool2Check(b) == IF b THEN "pass" ELSE "fail"

WithinWindow_Strict(age) == age < TimeWindow

\* `return age <= CRA_CONFIG["time_window_seconds"]`
WithinWindow(age) == age <= TimeWindow

\* ghost_oracle._check_timestamp: int(payload.get("timestamp", 0)), then
\* age = time.time() - ts, age <= window.
_check_timestamp(payload) ==
    LET t == payload.timestamp IN
    CASE t.kind = "missing" -> Bool2Check(WithinWindow(Now - 0))
      [] t.kind = "int"     -> Bool2Check(WithinWindow(Now - t.val))
      [] OTHER              -> "raise"   \* int() of null or of a non-numeric string

\* cra_audit._check_timestamp: datetime.fromisoformat(payload["timestamp"]),
\* read as UTC; t.val is that instant in seconds.
cra_check_timestamp(payload) ==
    LET t == payload.timestamp IN
    CASE t.kind = "iso" -> Bool2Check(WithinWindow(Now - t.val))
      [] OTHER          -> "raise"   \* KeyError, TypeError or ValueError

\* _check_amount: int(payload.get("amountWei", 0)) <= max_amount_wei.
AmountLeqMax(hi, lo) ==
    \/ hi < MaxAmountHi
    \/ hi = MaxAmountHi /\ lo <= MaxAmountLo

_check_amount(payload) ==
    LET a == payload.amountWei IN
    CASE a.kind = "missing" -> Bool2Check(AmountLeqMax(0, 0))
      [] a.kind = "int"     -> Bool2Check(AmountLeqMax(a.hi, a.lo))
      [] OTHER              -> "raise"

\* _check_geography: payload.get("originCountry", "").upper() in allowed set.
_check_geography(payload) ==
    LET c == payload.originCountry IN
    CASE c.kind = "missing" -> Bool2Check(Upper(<<>>) \in AllowedCountries)
      [] c.kind = "str"     -> Bool2Check(Upper(c.val) \in AllowedCountries)
      [] OTHER              -> "raise"   \* None has no upper()

\* The api key _check_external_risk reads: the environment's in ghost_oracle
\* (RISK_API_KEY, "" when unset), the literal None in cra_audit.
RiskApiKey(impl, envKey) == IF impl = "cra_audit" THEN "" ELSE envKey

\* Whether _check_external_risk posts to the risk service: a key is set and
\* building the request body (payload["intentHash"]) did not raise.
RiskServiceCalled(payload, key) == key # "" /\ payload.hasIntentHash

\* score < 70 on the answer of the risk service.
\*   resp.kind: "transport" (error or timeout) | "http" (raise_for_status) |
\*              "malformed" (body is not a JSON object) | "noscore" (object
\*              without riskScore: .get default 0) | "score" (val) |
\*              "nonnumeric" (riskScore is not a number)
ScoreBelowThreshold(score) == score < RiskThreshold

_check_external_risk(payload, key, resp) ==
    IF key = "" THEN "pass"
    ELSE IF ~payload.hasIntentHash THEN "fail"       \* KeyError, caught
    ELSE CASE resp.kind = "score"   -> Bool2Check(ScoreBelowThreshold(resp.val))
           [] resp.kind = "noscore" -> Bool2Check(ScoreBelowThreshold(0))
           [] OTHER                 -> "fail"        \* except Exception: False

CheckNames == <<"timestamp", "amount", "geography", "externalRisk">>

\* The value of one entry of the checks dict.  in.fetch: "ok" (the body
\* fetched is a JSON object) | "notdict" (it is JSON but no object: it has
\* no .get and no key "intentHash") | "error" (fetch_intent_payload raised).
RunCheck(name, in) ==
    IF name = "externalRisk"
    THEN _check_external_risk(
             IF in.fetch = "notdict"
             THEN [in.payload EXCEPT !.hasIntentHash = FALSE]
             ELSE in.payload,
             RiskApiKey(in.impl, in.key), in.resp)
    ELSE IF in.fetch = "notdict" THEN "raise"
    ELSE CASE name = "timestamp" ->
                IF in.impl = "cra_audit" THEN cra_check_timestamp(in.payload)
                                         ELSE _check_timestamp(in.payload)
           [] name = "amount"    -> _check_amount(in.payload)
           [] OTHER              -> _check_geography(in.payload)

EvalContinues_ShortCircuit(r) == r = "pass"

\* Whether building the checks dict goes on to entry i+1 after entry i gave r:
\* the dict literal evaluates every entry; only an exception ends it.
EvalContinues(r) == r # "raise"

\* The entries of the checks dict that get evaluated, in order.
RECURSIVE EvalChecks(_, _)
EvalChecks(i, in) ==
    IF i > Len(CheckNames) THEN <<>>
    ELSE LET r == RunCheck(CheckNames[i], in) IN
         IF EvalContinues(r) THEN <<r>> \o EvalChecks(i + 1, in)
                             ELSE <<r>>

\* The for loop over checks.items(): entries printed, up to the first failure.
RECURSIVE Reported(_, _)
Reported(i, rs) ==
    IF i > Len(rs) THEN <<>>
    ELSE IF rs[i] = "pass" THEN <<CheckNames[i]>> \o Reported(i + 1, rs)
                           ELSE <<CheckNames[i]>>

CatchAll_Propagate(outcome) == outcome

\* except Exception in perform_cra_audit: an exception becomes False.
CatchAll(outcome) == IF outcome = "raise" THEN "false" ELSE outcome

\* perform_cra_audit: fetch, build the checks dict, report, return.
\*   ret: "true" | "false" | "raise" (an exception leaves the function)
\*   evaluated: the values of the dict entries that were computed
\*   reported: the names the for loop printed
\*   riskCalled: whether the risk service was posted to
perform_cra_audit(in) ==
    IF in.fetch = "error"
    THEN [ret |-> CatchAll("raise"), evaluated |-> <<>>, reported |-> <<>>,
          riskCalled |-> FALSE]
    ELSE LET rs == EvalChecks(1, in)
             raised == \E i \in 1..Len(rs) : rs[i] = "raise"
             allOk == \A i \in 1..Len(rs) : rs[i] = "pass"
             payload == IF in.fetch = "notdict"
                        THEN [in.payload EXCEPT !.hasIntentHash = FALSE]
                        ELSE in.payload
         IN [ret |-> IF raised THEN CatchAll("raise")
                     ELSE IF allOk /\ Len(rs) = Len(CheckNames) THEN "true"
                     ELSE "false",
             evaluated |-> rs,
             reported |-> IF raised THEN <<>> ELSE Reported(1, rs),
             riskCalled |-> Len(rs) = Len(CheckNames)
                            /\ RiskServiceCalled(payload,
                                                 RiskApiKey(in.impl, in.key))]

\* ---- inputs of one audit run ------------------------------------------

TsValues ==
    { TsField("missing", 0),
      TsField("int", Now - TimeWindow),          \* age = window
      TsField("int", Now - TimeWindow - 1),      \* age = window + 1
      TsField("int", Now + 100),                 \* future timestamp
      TsField("iso", Now - TimeWindow),
      TsField("iso", Now - TimeWindow - 1),
      TsField("iso", Now + 100),
      TsField("bad", 0) }

AmtValues ==
    { AmtField("missing", 0, 0),
      AmtField("int", MaxAmountHi, MaxAmountLo),
      AmtField("int", MaxAmountHi, MaxAmountLo + 1),
      AmtField("bad", 0, 0) }

CtyValues ==
    { CtyField("missing", <<>>),
      CtyField("str", <<"u", "s">>),
      CtyField("str", <<"C", "A">>),
      CtyField("str", <<"F", "R">>),
      CtyField("null", <<>>) }

Payloads ==
    [timestamp : TsValues, amountWei : AmtValues,
     originCountry : CtyValues, hasIntentHash : BOOLEAN]

RiskResp(kind, val) == [kind |-> kind, val |-> val]

RiskResponses ==
    { RiskResp("transport", 0), RiskResp("http", 0), RiskResp("malformed", 0),
      RiskResp("noscore", 0), RiskResp("nonnumeric", 0),
      RiskResp("score", RiskThreshold - 1), RiskResp("score", RiskThreshold) }

AuditInputs ==
    [impl : {"ghost_oracle", "cra_audit"}, fetch : {"ok", "error", "notdict"},
     payload : Payloads, key : {"", "key"}, resp : RiskResponses]

NotRun == [ret |-> "none", evaluated |-> <<>>, reported |-> <<>>,
           riskCalled |-> FALSE]

\* The end-to-end payloads the monitoring model draws from: scenario A (age
\* 10 s, amount at the limit, country CA), scenario B (country FR), and a
\* payload whose timestamp is too old.
GoodPayload ==
    [timestamp |-> TsField("int", Now - 10),
     amountWei |-> AmtField("int", MaxAmountHi, MaxAmountLo),
     originCountry |-> CtyField("str", <<"C", "A">>),
     hasIntentHash |-> TRUE]

TickAuditInputs ==
    { [impl |-> "ghost_oracle", fetch |-> "ok", payload |-> GoodPayload,
       key |-> "", resp |-> RiskResp("transport", 0)],
      [impl |-> "ghost_oracle", fetch |-> "ok",
       payload |-> [GoodPayload EXCEPT
                       !.originCountry = CtyField("str", <<"F", "R">>)],
       key |-> "", resp |-> RiskResp("transport", 0)],
      [impl |-> "ghost_oracle", fetch |-> "error", payload |-> GoodPayload,
       key |-> "", resp |-> RiskResp("transport", 0)] }

(***************************************************************************)
(* Part 2.  Monitoring job, handle_intent, execute_tx                      *)
(***************************************************************************)

\* Intent identifiers that contracts declare.
Hashes == {"h1", "h2"}
NoHash == "none"

\* utils.OFFICIAL_SALT and a look-alike contract's value.
OFFICIAL_SALT == "0xC0RYM1LL3R_GHOST_AGENT_2025_1234567890abcdef"
Salts == {OFFICIAL_SALT, "0xLOOKALIKE"}

\* Bounds of the model.
MaxEvents == 2     \* IntentDeclared logs emitted
MaxSent   == 4     \* transactions broadcast
MaxSaltChanges == 1  \* changes of the contract's CONTRACT_SALT() answer

\* The observation counters count 0, 1, "2 or more".
Inc(n) == IF n < 2 THEN n + 1 ELSE n

\* utils.check_contract_salt: TRUE is "returns True", FALSE is "raises".
check_contract_salt(salt) == salt = OFFICIAL_SALT

MainInit ==
    /\ eventLog = <<>>
    /\ headStart = 0
    /\ contractSalt = OFFICIAL_SALT   \* another answer comes by SaltChange
    /\ saltChanges = 0
    /\ txCount = 0
    /\ sent = <<>>
    /\ keyUsable \in BOOLEAN
    /\ processed = {}
    /\ pc = "idle"
    /\ fltFrom = 0
    /\ queue = <<>>
    /\ cur = NoHash
    /\ fn = "none"
    /\ curNonce = 0
    /\ curTx = 0
    /\ auditCount = [h \in Hashes |-> 0]
    /\ auditRes = [h \in Hashes |-> "none"]
    /\ sigs = {}
    /\ sigCount = [h \in Hashes |-> 0]
    /\ addCount = [h \in Hashes |-> 0]
    /\ delivered = [i \in 1..MaxEvents |-> 0]
    /\ sched = "running"
    /\ lastDue = "none"

\* ---- the chain and the contract (environment) --------------------------

\* Somebody declares intent h: a new block holds the IntentDeclared log.
DeclareIntent(h) ==
    /\ Len(eventLog) < MaxEvents
    /\ eventLog' = Append(eventLog, h)
    /\ headStart' = Len(eventLog)
    /\ UNCHANGED <<contractSalt, saltChanges, txCount, sent, procVars, histVars,
                   auditVars, txVars,
                   schedVars>>

\* A block without IntentDeclared logs and without oracle transactions.
MineEmptyBlock ==
    /\ headStart < Len(eventLog)
    /\ headStart' = Len(eventLog)
    /\ UNCHANGED <<eventLog, contractSalt, saltChanges, txCount, sent, procVars,
                   histVars, auditVars, txVars,
                   schedVars>>

\* The pending transaction with the account's next nonce is mined; the
\* contract call succeeds (status 1) or reverts (status 0).
MineTx ==
    \E i \in 1..Len(sent), status \in {"ok", "reverted"} :
        /\ sent[i].st = "pending"
        /\ sent[i].nonce = txCount
        /\ sent' = [sent EXCEPT ![i].st = status]
        /\ txCount' = txCount + 1
        /\ headStart' = Len(eventLog)
        /\ UNCHANGED <<eventLog, contractSalt, saltChanges, procVars, histVars,
                       auditVars, txVars,
                   schedVars>>

\* The contract behind CONTRACT_ADDRESS answers CONTRACT_SALT() differently.
SaltChange ==
    /\ saltChanges < MaxSaltChanges
    /\ saltChanges' = saltChanges + 1
    /\ contractSalt' \in Salts \ {contractSalt}
    /\ UNCHANGED <<eventLog, headStart, txCount, sent, procVars, histVars,
                   auditVars, txVars,
                   schedVars>>

\* ---- the scheduler of start_scheduler -----------------------------------

\* add_job(monitor_job, "interval", seconds=5, max_instances=1)
MaxInstances == 1

\* Instances of monitor_job that are executing.
Running == IF pc = "idle" THEN 0 ELSE 1

CanStartInstance_Always(n) == TRUE

\* Whether the scheduler starts a due run when n instances are executing.
CanStartInstance(n) == n < MaxInstances

AfterTickError_Escapes == "escaped"

\* Where monitor_job goes on after an exception in its try block:
\* `except Exception as exc: print(...)`, then it returns.
AfterTickError == "idle"

ShutdownWaits_No == FALSE

\* scheduler.shutdown() is called with its default wait=True: it returns
\* when the executor has no running job left.
ShutdownWaits == TRUE

\* KeyboardInterrupt or SystemExit reaches the main thread in its sleep
\* loop: scheduler.shutdown() is called and the scheduler starts no more run.
Interrupt ==
    /\ sched = "running"
    /\ sched' = "stopping"
    /\ UNCHANGED <<chainVars, procVars, histVars, auditVars, txVars, lastDue>>

\* scheduler.shutdown() returns, "Scheduler stopped." is printed and
\* start_scheduler returns: the process is over.
ShutdownReturns ==
    /\ sched = "stopping"
    /\ ShutdownWaits => Running = 0
    /\ sched' = "exited"
    /\ UNCHANGED <<chainVars, procVars, histVars, auditVars, txVars, lastDue>>

\* ---- handle_intent ------------------------------------------------------

AlreadyProcessed_Never(h) == FALSE

\* `if intent_hash in processed: return`
AlreadyProcessed(h) == h \in processed

\* `if not perform_cra_audit(intent_hash)`: what follows the audit's value.
\* A value of "raise" is an exception leaving perform_cra_audit.
AuditGate(ret) ==
    CASE ret = "true"  -> "sign"
      [] ret = "false" -> "reject"
      [] OTHER         -> "raise"

RejectIntent_NoAdd(h) == UNCHANGED <<processed, addCount>>

\* The audit-failed branch: processed.add(intent_hash); return
RejectIntent(h) ==
    /\ processed' = processed \cup {h}
    /\ addCount' = [addCount EXCEPT ![h] = Inc(@)]

FinishIntent_Replace(h) ==
    /\ processed' = {h}
    /\ addCount' = [addCount EXCEPT ![h] = Inc(@)]

\* The last statement of handle_intent: processed.add(intent_hash)
FinishIntent(h) ==
    /\ processed' = processed \cup {h}
    /\ addCount' = [addCount EXCEPT ![h] = Inc(@)]

\* Whether Account.sign_hash raises: the startup test only requires
\* ORACLE_PRIVATE_KEY to be non-empty, so it may be no valid key.
SignRaises == ~keyUsable

\* ghost_oracle.sign_intent: Account.sign_hash, nothing else.  The salt the
\* contract shows at that moment is recorded with the signature.
sign_intent(h) ==
    /\ sigs' = sigs \cup {[h |-> h, salt |-> contractSalt]}
    /\ sigCount' = [sigCount EXCEPT ![h] = Inc(@)]

\* One iteration of `for ev in flt.get_new_entries(): handle_intent(ev)` up to
\* the first execute_tx call: the processed test, the audit, the signature.
HandleIntent ==
    /\ pc = "loop"
    /\ queue # <<>>
    /\ LET e == Head(queue)
           h == eventLog[e]
       IN /\ delivered' = [delivered EXCEPT ![e] = Inc(@)]
          /\ IF AlreadyProcessed(h)
             THEN /\ queue' = Tail(queue)
                  /\ UNCHANGED <<processed, pc, fltFrom, cur, fn, auditCount,
                                 auditRes, sigs, sigCount, addCount>>
             ELSE \E in \in TickAuditInputs :
                    LET ret == perform_cra_audit(in).ret
                        next == AuditGate(ret)
                    IN /\ auditCount' = [auditCount EXCEPT ![h] = Inc(@)]
                       /\ auditRes' = [auditRes EXCEPT ![h] = ret]
                       /\ CASE next = "sign" /\ ~SignRaises ->
                                 /\ sign_intent(h)
                                 /\ pc' = "build"
                                 /\ cur' = h
                                 /\ fn' = "verifyIntent"
                                 /\ queue' = Tail(queue)
                                 /\ UNCHANGED <<processed, addCount, fltFrom>>
                            [] next = "reject" ->
                                 /\ RejectIntent(h)
                                 /\ queue' = Tail(queue)
                                 /\ UNCHANGED <<pc, fltFrom, cur, fn, sigs,
                                                sigCount>>
                            [] OTHER ->
                                 \* sign_intent (or the audit) raised: the
                                 \* exception leaves handle_intent and ends
                                 \* the tick in monitor_job's except clause
                                 /\ pc' = AfterTickError
                                 /\ queue' = <<>>
                                 /\ fltFrom' = 0
                                 /\ UNCHANGED <<processed, addCount, cur, fn,
                                                sigs, sigCount>>
    /\ UNCHANGED <<chainVars, keyUsable, curNonce, curTx, auditVars, txVars,
                   schedVars>>

\* ---- execute_tx ---------------------------------------------------------

\* A broadcast transaction.  st: "pending" | "ok" (mined, status 1) |
\* "reverted" (mined, status 0) | "dropped" (replaced in the mempool).
\* obs: the receipt status wait_for_transaction_receipt returned to the
\* oracle ("none" while it has returned nothing).  salt: what the contract
\* showed when the transaction was broadcast.
Tx(f, h, nonce) ==
    [fn |-> f, h |-> h, nonce |-> nonce, st |-> "pending", obs |-> "none",
     salt |-> contractSalt]

\* `nonce = w3.eth.get_transaction_count(ORACLE_ADDRESS)`: the default block
\* is "latest", so the count is that of the mined transactions.
ReadNonce == txCount

AfterReceipt_IgnoreStatus(f, status) ==
    IF f = "verifyIntent" THEN "seize" ELSE "done"

\* What handle_intent does after execute_tx(f, ...) got a receipt: the
\* status test of execute_tx, then the statement after the call.
AfterReceipt(f, status) ==
    IF status # "ok" THEN "raise"
    ELSE IF f = "verifyIntent" THEN "seize"
    ELSE "done"

EndIntent_AddInTry(outcome) ==
    /\ IF outcome = "ok" THEN FinishIntent(cur)
                         ELSE UNCHANGED <<processed, addCount>>
    /\ pc' = "loop"
    /\ cur' = NoHash
    /\ fn' = "none"
    /\ curNonce' = 0
    /\ curTx' = 0

\* How handle_intent ends once it has signed: the try block ends normally
\* (outcome "ok") or in `except Exception` (outcome "error"); processed.add
\* follows either way.
EndIntent(outcome) ==
    /\ FinishIntent(cur)
    /\ pc' = "loop"
    /\ cur' = NoHash
    /\ fn' = "none"
    /\ curNonce' = 0
    /\ curTx' = 0

\* execute_tx up to sign_transaction: read the nonce, build, read the gas
\* price, estimate gas, sign.
ExecBuild ==
    /\ pc = "build"
    /\ curNonce' = ReadNonce
    /\ pc' = "send"
    /\ UNCHANGED <<chainVars, keyUsable, processed, fltFrom, queue, cur, fn, curTx,
                   histVars, auditVars, txVars,
                   schedVars>>

\* get_transaction_count, build_transaction, gas_price or estimate_gas raises.
ExecBuildFails ==
    /\ pc = "build"
    /\ EndIntent("error")
    /\ UNCHANGED <<chainVars, keyUsable, fltFrom, queue, auditCount,
                   auditRes, sigs, sigCount, delivered, auditVars, txVars,
                   schedVars>>

\* send_raw_transaction accepted by the node.  A nonce below the account's
\* count is refused; a pending transaction with the same nonce is replaced
\* (the gas price is read anew for each build, so it may have risen).
ExecSend ==
    /\ pc = "send"
    /\ Len(sent) < MaxSent
    /\ curNonce >= txCount
    /\ LET replaced == [i \in 1..Len(sent) |->
                          IF sent[i].st = "pending" /\ sent[i].nonce = curNonce
                          THEN [sent[i] EXCEPT !.st = "dropped"]
                          ELSE sent[i]]
       IN sent' = Append(replaced, Tx(fn, cur, curNonce))
    /\ curTx' = Len(sent) + 1
    /\ pc' = "await"
    /\ curNonce' = 0
    /\ UNCHANGED <<eventLog, headStart, contractSalt, saltChanges, txCount,
                   keyUsable, processed, fltFrom, queue, cur, fn, histVars,
                   auditVars, txVars,
                   schedVars>>

\* send_raw_transaction raises: transport error, or the node refuses the
\* transaction (nonce too low, replacement underpriced).
ExecSendFails ==
    /\ pc = "send"
    /\ EndIntent("error")
    /\ UNCHANGED <<chainVars, keyUsable, fltFrom, queue, auditCount,
                   auditRes, sigs, sigCount, delivered, auditVars, txVars,
                   schedVars>>

\* wait_for_transaction_receipt returns the receipt of the mined transaction.
AwaitReceipt ==
    /\ pc = "await"
    /\ sent[curTx].st \in {"ok", "reverted"}
    /\ sent' = [sent EXCEPT ![curTx].obs = sent[curTx].st]
    /\ LET next == AfterReceipt(fn, sent[curTx].st)
       IN IF next = "seize"
          THEN /\ fn' = "seizeAssets"
               /\ pc' = "build"
               /\ UNCHANGED <<processed, cur, addCount>>
               /\ curTx' = 0
               /\ UNCHANGED curNonce
          ELSE EndIntent(IF next = "done" THEN "ok" ELSE "error")
    /\ UNCHANGED <<eventLog, headStart, contractSalt, saltChanges, txCount,
                   keyUsable, fltFrom, queue, auditCount, auditRes, sigs, sigCount,
                   delivered, auditVars, txVars,
                   schedVars>>

\* wait_for_transaction_receipt raises: TimeExhausted after its timeout
\* (120 s by default), or a transport error while polling.
AwaitFails ==
    /\ pc = "await"
    /\ EndIntent("error")
    /\ UNCHANGED <<chainVars, keyUsable, fltFrom, queue, auditCount,
                   auditRes, sigs, sigCount, delivered, auditVars, txVars,
                   schedVars>>

\* ---- monitor_job --------------------------------------------------------

\* Where the filter made by create_filter(fromBlock="latest") starts.  Nodes
\* differ: the first get_new_entries of a new filter returns the logs of the
\* block that was latest at creation and of later blocks (inclusive), or the
\* logs of later blocks only.
FilterStarts == {headStart, Len(eventLog)}

\* A run of the job is due and the scheduler starts monitor_job, which
\* creates the filter.
Tick ==
    /\ sched = "running"
    /\ CanStartInstance(Running)
    /\ fltFrom' \in FilterStarts
    /\ pc' = "created"
    /\ lastDue' = "started"
    /\ UNCHANGED <<chainVars, keyUsable, processed, queue, cur, fn, curNonce, curTx,
                   histVars, auditVars, txVars, sched>>

\* A run of the job is due, the scheduler starts monitor_job and
\* create_filter raises (transport error): logged, the tick ends.
TickFails ==
    /\ sched = "running"
    /\ CanStartInstance(Running)
    /\ pc' = AfterTickError
    /\ fltFrom' = 0
    /\ lastDue' = "started"
    /\ UNCHANGED <<chainVars, keyUsable, processed, queue, cur, fn, curNonce, curTx,
                   histVars, auditVars, txVars, sched>>

\* A run of the job is due while the scheduler may start no instance: the
\* run is skipped ("maximum number of running instances reached"); nothing
\* is started and nothing is kept for later.
TickSkipped ==
    /\ sched = "running"
    /\ ~CanStartInstance(Running)
    /\ lastDue' = "skipped"
    /\ UNCHANGED <<chainVars, procVars, histVars, auditVars, txVars, sched>>

\* The entries get_new_entries returns, in log order.
NewEntries == [k \in 1..(Len(eventLog) - fltFrom) |-> fltFrom + k]

Poll ==
    /\ pc = "created"
    /\ queue' = NewEntries
    /\ pc' = "loop"
    /\ UNCHANGED <<chainVars, keyUsable, processed, fltFrom, cur, fn, curNonce, curTx,
                   histVars, auditVars, txVars,
                   schedVars>>

\* get_new_entries raises (transport error): logged, the tick ends.
PollFails ==
    /\ pc = "created"
    /\ pc' = AfterTickError
    /\ fltFrom' = 0
    /\ UNCHANGED <<chainVars, keyUsable, processed, queue, cur, fn, curNonce, curTx,
                   histVars, auditVars, txVars,
                   schedVars>>

\* The for loop is exhausted: monitor_job returns.
TickEnd ==
    /\ pc = "loop"
    /\ queue = <<>>
    /\ pc' = "idle"
    /\ fltFrom' = 0
    /\ UNCHANGED <<chainVars, keyUsable, processed, queue, cur, fn, curNonce, curTx,
                   histVars, auditVars, txVars,
                   schedVars>>

\* ---- execute_tx, statement by statement ---------------------------------

\* The statements of execute_tx that call the node or the account, in order:
\* get_transaction_count/gas_price/build_transaction, estimate_gas (and the
\* margin), sign_transaction, send_raw_transaction,
\* wait_for_transaction_receipt.
TxSteps == <<"Build", "EstimateGas", "Sign", "Send", "AwaitReceipt">>

\* How far the drawn gas estimates spread above their two base values.
GasSpread == 6

\* What estimate_gas returns: around the cost of a plain transfer and around
\* a contract call of 100000 gas; every residue modulo 5 occurs.
GasEstimates ==
    {21000 + k : k \in 0..GasSpread} \cup {100000 + k : k \in 0..GasSpread}

GasLimit_NoMargin(estimated) == estimated

\* `tx["gas"] = int(estimated * 1.2)`: the product is a double and int()
\* truncates it.  The double nearest to 1.2 lies below 6/5 by less than
\* 5e-17, so for every estimate below 2^50 the product rounds to 6e/5 when
\* that is an integer and keeps its integer part otherwise: the result is the
\* integer part of 6e/5.
GasLimit(estimated) == (6 * estimated) \div 5

TxInputs == [fn : {"verifyIntent", "seizeAssets"}, estimated : GasEstimates]

\* at: index in TxSteps of the statement to run next (Len + 1: the call is
\*     over); trace: <<statement, outcome>> of the statements run so far;
\* gas: tx["gas"]; broadcast: what send_raw_transaction handed to the node;
\* result: "none" | "receipt" (returned) | "raised".
TxNotStarted ==
    [at |-> 1, trace |-> <<>>, gas |-> 0, broadcast |-> <<>>, result |-> "none"]

TxOver == Len(TxSteps) + 1

\* A statement of execute_tx ran without raising.
TxAdvance(step, outcome) ==
    /\ txCall.at <= Len(TxSteps)
    /\ TxSteps[txCall.at] = step
    /\ txCall' = [txCall EXCEPT !.at = @ + 1,
                                !.trace = Append(@, <<step, outcome>>)]

TxBuild ==
    /\ TxAdvance("Build", "ok")
    /\ UNCHANGED <<chainVars, procVars, histVars, auditVars, txIn, schedVars>>

TxEstimateGas ==
    /\ txCall.at <= Len(TxSteps)
    /\ TxSteps[txCall.at] = "EstimateGas"
    /\ txCall' = [txCall EXCEPT !.at = @ + 1,
                                !.trace = Append(@, <<"EstimateGas", "ok">>),
                                !.gas = GasLimit(txIn.estimated)]
    /\ UNCHANGED <<chainVars, procVars, histVars, auditVars, txIn, schedVars>>

TxSign ==
    /\ TxAdvance("Sign", "ok")
    /\ UNCHANGED <<chainVars, procVars, histVars, auditVars, txIn, schedVars>>

\* send_raw_transaction returns the hash: the transaction is broadcast.
TxSend ==
    /\ txCall.at <= Len(TxSteps)
    /\ TxSteps[txCall.at] = "Send"
    /\ txCall' = [txCall EXCEPT
                     !.at = @ + 1,
                     !.trace = Append(@, <<"Send", "ok">>),
                     !.broadcast = Append(@, [fn |-> txIn.fn,
                                              gas |-> txCall.gas])]
    /\ UNCHANGED <<chainVars, procVars, histVars, auditVars, txIn, schedVars>>

\* `if receipt.status != 1: raise RuntimeError(...)`, else `return receipt`.
ReceiptOutcome(status) == IF status = 1 THEN "ok" ELSE "reverted"

\* wait_for_transaction_receipt returns a receipt of status 1 or 0.
TxAwaitReceipt ==
    \E status \in {0, 1} :
        /\ txCall.at <= Len(TxSteps)
        /\ TxSteps[txCall.at] = "AwaitReceipt"
        /\ txCall' = [txCall EXCEPT
                         !.at = TxOver,
                         !.trace = Append(@, <<"AwaitReceipt",
                                               ReceiptOutcome(status)>>),
                         !.result = IF ReceiptOutcome(status) = "ok"
                                    THEN "receipt" ELSE "raised"]
        /\ UNCHANGED <<chainVars, procVars, histVars, auditVars, txIn,
                       schedVars>>

OnStepFailure_Retry(at) == at

\* Where execute_tx goes on when the statement at index `at` raised: it has
\* no try block, so the exception leaves it.
OnStepFailure(at) == TxOver

\* The statement that is next raises (transport error, timeout, the node
\* refuses): nothing is broadcast by it.
TxStepRaises ==
    /\ txCall.at <= Len(TxSteps)
    /\ LET n == OnStepFailure(txCall.at)
       IN txCall' = [txCall EXCEPT
                        !.at = n,
                        !.trace = Append(@, <<TxSteps[txCall.at], "raised">>),
                        !.result = IF n = TxOver THEN "raised" ELSE "none"]
    /\ UNCHANGED <<chainVars, procVars, histVars, auditVars, txIn, schedVars>>

\* ---- specifications -----------------------------------------------------

Init ==
    /\ MainInit
    /\ auditIn = CHOOSE in \in AuditInputs : TRUE
    /\ auditOut = NotRun
    /\ txIn = CHOOSE in \in TxInputs : TRUE
    /\ txCall = TxNotStarted

Next ==
    \/ \E h \in Hashes : DeclareIntent(h)
    \/ MineEmptyBlock
    \/ MineTx
    \/ SaltChange
    \/ Tick
    \/ TickFails
    \/ Poll
    \/ PollFails
    \/ HandleIntent
    \/ ExecBuild
    \/ ExecBuildFails
    \/ ExecSend
    \/ ExecSendFails
    \/ AwaitReceipt
    \/ AwaitFails
    \/ TickEnd

Spec == Init /\ [][Next]_vars

\* The oracle with its scheduler and its main thread, against a contract
\* that stays the genuine one: the runs that come due while one executes, and
\* the shutdown.
InitSched == Init

NextSched ==
    \/ \E h \in Hashes : DeclareIntent(h)
    \/ MineEmptyBlock
    \/ MineTx
    \/ Tick
    \/ TickFails
    \/ TickSkipped
    \/ Poll
    \/ PollFails
    \/ HandleIntent
    \/ ExecBuild
    \/ ExecBuildFails
    \/ ExecSend
    \/ ExecSendFails
    \/ AwaitReceipt
    \/ AwaitFails
    \/ TickEnd
    \/ Interrupt
    \/ ShutdownReturns

SpecSched == InitSched /\ [][NextSched]_vars

\* One run of perform_cra_audit on inputs drawn from AuditInputs.
RunAudit ==
    /\ auditOut = NotRun
    /\ auditOut' = perform_cra_audit(auditIn)
    /\ UNCHANGED <<chainVars, procVars, histVars, auditIn, txVars, schedVars>>

InitAudit ==
    /\ MainInit
    /\ auditIn \in AuditInputs
    /\ auditOut = NotRun
    /\ txIn = CHOOSE in \in TxInputs : TRUE
    /\ txCall = TxNotStarted

NextAudit == RunAudit

SpecAudit == InitAudit /\ [][NextAudit]_vars

\* One call of execute_tx on inputs drawn from TxInputs.
InitTx ==
    /\ MainInit
    /\ auditIn = CHOOSE in \in AuditInputs : TRUE
    /\ auditOut = NotRun
    /\ txIn \in TxInputs
    /\ txCall = TxNotStarted

NextTx ==
    \/ TxBuild
    \/ TxEstimateGas
    \/ TxSign
    \/ TxSend
    \/ TxAwaitReceipt
    \/ TxStepRaises

SpecTx == InitTx /\ [][NextTx]_vars

(***************************************************************************)
(* Part 3.  The claims                                                     *)
(***************************************************************************)

\* Transactions broadcast for intent h calling f.
TxsOf(h, f) == {i \in 1..Len(sent) : sent[i].h = h /\ sent[i].fn = f}

\* Whether handle_intent is in the middle of handling h.
Handling(h) == cur = h /\ pc \in {"build", "send", "await"}

\* No step changes what was audited, signed or broadcast for an identifier
\* that is in the processed set.
HandledIsFrozen ==
    \A h \in processed :
        /\ auditCount'[h] = auditCount[h]
        /\ sigCount'[h] = sigCount[h]
        /\ TxsOf(h, "verifyIntent")' = TxsOf(h, "verifyIntent")
        /\ TxsOf(h, "seizeAssets")' = TxsOf(h, "seizeAssets")

\* Per identifier: at most one signature, verifyIntent and seizeAssets.
AtMostOnce ==
    \A h \in Hashes :
        /\ sigCount[h] <= 1
        /\ Cardinality(TxsOf(h, "verifyIntent")) <= 1
        /\ Cardinality(TxsOf(h, "seizeAssets")) <= 1

C2_SaltGuardGates ==
    /\ \A s \in sigs : check_contract_salt(s.salt) /\ auditRes[s.h] = "true"
    /\ \A i \in 1..Len(sent) : check_contract_salt(sent[i].salt)

\* C3 -- an intent whose audit passed while the authenticity check fails at
\* the point of signing is not added to the processed set.
C3_SaltFailureNotProcessed ==
    \A s \in sigs :
        (auditRes[s.h] = "true" /\ ~check_contract_salt(s.salt))
            => s.h \notin processed

\* C4 -- an intent whose audit is not fully passing gets no signature and no
\* transaction, and is in the processed set once handle_intent has returned.
C4_AuditFailRejects ==
    \A h \in Hashes :
        auditRes[h] = "false" =>
            /\ sigCount[h] = 0
            /\ \A i \in 1..Len(sent) : sent[i].h # h
            /\ h \in processed

\* C4 witness: a rejected intent, after its handle_intent call returned.
C4_Witness ==
    \E h \in Hashes :
        auditRes[h] = "false" /\ h \in processed /\ pc = "idle"

\* Among the first n broadcasts there is a verifyIntent for h whose receipt
\* the oracle saw with status success.
VerifiedBefore(h, n) ==
    \E i \in 1..n :
        sent[i].h = h /\ sent[i].fn = "verifyIntent" /\ sent[i].obs = "ok"

\* C5 -- verify-then-seize: seizeAssets is attempted and broadcast for an
\* intent only after a verifyIntent transaction for the same intent was
\* broadcast and its receipt was seen with status success.
C5_VerifyThenSeize ==
    /\ \A j \in 1..Len(sent) :
           sent[j].fn = "seizeAssets" => VerifiedBefore(sent[j].h, j - 1)
    /\ fn = "seizeAssets" => VerifiedBefore(cur, Len(sent))

\* C5 witness: one intent went through verify and seize, and another one's
\* verifyIntent reverted and its handling ended without a seizeAssets.
C5_Witness ==
    \E h, g \in Hashes :
        /\ TxsOf(h, "seizeAssets") # {}
        /\ \E i \in TxsOf(g, "verifyIntent") : sent[i].obs = "reverted"
        /\ g \in processed
        /\ TxsOf(g, "seizeAssets") = {}

\* C6 -- a signed intent is added to the processed set exactly once, when
\* its submissions have completed or failed, whatever their outcome.
C6_SignedThenProcessed ==
    \A h \in Hashes :
        sigCount[h] >= 1 =>
            IF Handling(h)
            THEN h \notin processed /\ addCount[h] = 0
            ELSE h \in processed /\ addCount[h] = 1

\* C6 witness: a signed intent whose verifyIntent was never broadcast (build,
\* estimate or send failed) is processed, and so is one whose verifyIntent
\* reverted.
C6_Witness ==
    \E h, g \in Hashes :
        /\ sigCount[h] = 1 /\ h \in processed /\ TxsOf(h, "verifyIntent") = {}
        /\ g \in processed
        /\ \E i \in TxsOf(g, "verifyIntent") : sent[i].obs = "reverted"

\* Each of the four checks, taken alone, passes on the inputs.
AllChecksPass(in) ==
    \A k \in 1..Len(CheckNames) : RunCheck(CheckNames[k], in) = "pass"

\* C7 -- perform_cra_audit returns True exactly when the payload was fetched
\* and each of the four checks passes; otherwise it returns False; it never
\* lets an exception out.
C7_AuditIffAllPass ==
    auditOut # NotRun =>
        /\ auditOut.ret \in {"true", "false"}
        /\ auditOut.ret = "true" <=>
               (auditIn.fetch # "error" /\ AllChecksPass(auditIn))

\* C7 witness: a passing audit that went through the risk service.
C7_Witness ==
    /\ auditOut # NotRun
    /\ auditOut.ret = "true"
    /\ auditOut.riskCalled

\* C8 as claimed -- evaluation stops at the first failing check, and the
\* risk service is not called when an earlier check failed.
C8_ShortCircuit ==
    auditOut # NotRun =>
        /\ \A k \in 2..Len(auditOut.evaluated) :
               auditOut.evaluated[k - 1] = "pass"
        /\ auditOut.riskCalled =>
               \A k \in 1..3 : RunCheck(CheckNames[k], auditIn) = "pass"

\* The payload was fetched and none of the checks before the n-th raises.
NoRaiseBefore(in, n) ==
    in.fetch = "ok" /\ \A k \in 1..(n - 1) : RunCheck(CheckNames[k], in) # "raise"

\* C8 as amended -- all four checks are evaluated, in the order timestamp,
\* amount, geography, external risk, unless one raises (which ends the
\* evaluation); only the report stops at the first failing check; the risk
\* service is called whenever a key is configured, the payload names its
\* intent and no earlier check raised, also when an earlier check failed.
C8_EagerEvaluation ==
    auditOut # NotRun =>
        /\ \A k \in 1..Len(CheckNames) :
               k <= Len(auditOut.evaluated) <=>
                   (auditIn.fetch # "error" /\ \A m \in 1..(k - 1) :
                        RunCheck(CheckNames[m], auditIn) # "raise")
        /\ \A k \in 1..Len(auditOut.evaluated) :
               auditOut.evaluated[k] = RunCheck(CheckNames[k], auditIn)
        /\ \A k \in 1..Len(CheckNames) :
               (k <= Len(auditOut.reported) /\ auditOut.reported[k] = CheckNames[k])
                   <=> /\ Len(auditOut.evaluated) = Len(CheckNames)
                       /\ auditOut.evaluated[Len(CheckNames)] # "raise"
                       /\ \A m \in 1..(k - 1) : auditOut.evaluated[m] = "pass"
        /\ auditOut.riskCalled <=>
               /\ NoRaiseBefore(auditIn, Len(CheckNames))
               /\ RiskApiKey(auditIn.impl, auditIn.key) # ""
               /\ auditIn.payload.hasIntentHash

\* C8 witness: the geography check failed and the risk service was called.
C8_Witness ==
    /\ auditOut # NotRun
    /\ Len(auditOut.evaluated) = 4
    /\ auditOut.evaluated[3] = "fail"
    /\ auditOut.riskCalled
    /\ auditOut.reported = <<"timestamp", "amount", "geography">>

\* C9 -- no transaction is broadcast with the nonce of an earlier broadcast
\* transaction that is still pending or already mined.
C9_NoNonceReuse ==
    [][Len(sent') > Len(sent) =>
          \A i \in 1..Len(sent) :
              sent[i].st \in {"pending", "ok", "reverted"}
                  => sent[i].nonce # sent'[Len(sent')].nonce]_vars

\* C10 -- no IntentDeclared log is missed (a log older than the filter of
\* the running tick has been passed to handle_intent by an earlier tick) and
\* none is passed to handle_intent twice.
C10_EveryEventDeliveredOnce ==
    \A i \in 1..Len(eventLog) :
        /\ (pc # "idle" /\ i <= fltFrom) => delivered[i] >= 1
        /\ delivered[i] <= 1

\* C11 as claimed -- the gas limit of a broadcast transaction is the least
\* integer not below 6 * estimated / 5.
C11_GasCeil ==
    \A i \in 1..Len(txCall.broadcast) :
        LET g == txCall.broadcast[i].gas IN
        /\ 5 * g >= 6 * txIn.estimated
        /\ 5 * (g - 1) < 6 * txIn.estimated

\* C11 as amended -- the gas limit of a broadcast transaction is the integer
\* part of 6 * estimated / 5 (the greatest integer not above it), the value
\* set after estimate_gas; an estimate of 100000 yields exactly 120000.
C11_GasFloor ==
    \A i \in 1..Len(txCall.broadcast) :
        LET g == txCall.broadcast[i].gas IN
        /\ g = txCall.gas
        /\ 5 * g <= 6 * txIn.estimated
        /\ 5 * (g + 1) > 6 * txIn.estimated
        /\ txIn.estimated = 100000 => g = 120000

\* C11 witness: a transaction broadcast for an estimate that is no multiple
\* of 5 (6 * 21001 / 5 = 25201.2).
C11_Witness ==
    /\ Len(txCall.broadcast) = 1
    /\ txIn.estimated = 21001
    /\ txCall.broadcast[1].gas = 25201

\* The statements run so far are the first ones of TxSteps, in order, and
\* only the last one may have failed.
TraceIsPrefix ==
    /\ Len(txCall.trace) <= Len(TxSteps)
    /\ \A k \in 1..Len(txCall.trace) :
           /\ txCall.trace[k][1] = TxSteps[k]
           /\ k < Len(txCall.trace) => txCall.trace[k][2] = "ok"

\* Whether the statement called step ran and did not raise.
StepOk(step) ==
    \E k \in 1..Len(txCall.trace) :
        txCall.trace[k][1] = step /\ txCall.trace[k][2] = "ok"

\* C16 -- one execute_tx call runs Build, EstimateGas, Sign, Send,
\* AwaitReceipt in this order, each at most once; a statement that fails is
\* the last one run and the call ends raising; a transaction is broadcast
\* exactly when Send ran without raising, hence at most one per call and none
\* when estimation failed; the call returns only after a receipt of status 1,
\* and a receipt of another status ends it raising.
C16_ExecuteTxSteps ==
    /\ TraceIsPrefix
    /\ Len(txCall.broadcast) <= 1
    /\ Len(txCall.broadcast) = 1 <=> StepOk("Send")
    /\ ~StepOk("EstimateGas") => txCall.broadcast = <<>>
    /\ txCall.result = "receipt" <=> StepOk("AwaitReceipt")
    /\ txCall.result = "raised" <=>
           /\ txCall.trace # <<>>
           /\ txCall.trace[Len(txCall.trace)][2] # "ok"
    /\ txCall.result # "none" <=> txCall.at = TxOver

\* C16 witness: the transaction was broadcast, its receipt has status 0 and
\* the call ended raising, with that one broadcast.
C16_Witness ==
    /\ txCall.result = "raised"
    /\ Len(txCall.trace) = 5
    /\ txCall.trace[5] = <<"AwaitReceipt", "reverted">>
    /\ Len(txCall.broadcast) = 1

\* C12 -- external risk check: without a credential it passes and the
\* service is not called; with a credential it passes exactly when the service
\* answered with a numeric score below 70, and fails on a transport error, a
\* non-success status, a malformed body or a body without a usable score.
C12_RiskPolicy ==
    (auditOut # NotRun /\ Len(auditOut.evaluated) = Len(CheckNames)) =>
        LET key == RiskApiKey(auditIn.impl, auditIn.key)
            risk == auditOut.evaluated[Len(CheckNames)]
        IN /\ key = "" => (risk = "pass" /\ ~auditOut.riskCalled)
           /\ key # "" =>
                  (risk = "pass" <=>
                      /\ auditOut.riskCalled
                      /\ auditIn.resp.kind = "score"
                      /\ auditIn.resp.val < 70)

\* Whether the implementation can read the payload's timestamp: seconds
\* since the epoch in ghost_oracle, an ISO-8601 string in cra_audit.
TimestampReadable(in) ==
    \/ in.impl = "ghost_oracle" /\ in.payload.timestamp.kind = "int"
    \/ in.impl = "cra_audit" /\ in.payload.timestamp.kind = "iso"

TickEndsInError ==
    /\ pc # "idle"
    /\ pc' = "idle"
    /\ pc = "created" \/ queue # <<>>

\* Positions of monitor_job and of what it calls.
JobPositions == {"idle", "created", "loop", "build", "send", "await"}

\* C13 -- a tick that raises (querying the events, or an exception leaving
\* handle_intent) ends inside monitor_job: control is never outside the job's
\* positions, the step that ends the tick changes neither the chain nor the
\* processed set nor the signatures, and while the scheduler runs and no
\* instance executes the next tick can start.
C13_TickErrorContained ==
    /\ [](pc \in JobPositions)
    /\ [][TickEndsInError =>
              UNCHANGED <<chainVars, processed, sigs, sigCount, addCount>>]_vars
    /\ []((sched = "running" /\ pc = "idle") => ENABLED Tick)

\* C13 witness: an exception left handle_intent for an intent (its audit
\* passed, sign_intent raised, the tick ended), and a later tick ran and
\* handled the same intent again.
C13_Witness ==
    \E h \in Hashes :
        /\ auditCount[h] = 2
        /\ auditRes[h] = "true"
        /\ sigCount[h] = 0
        /\ h \notin processed
        /\ pc = "idle"

\* C14 -- at most one tick executes at a time: monitor_job is entered only
\* while no instance of it executes, and a run that comes due while one
\* executes is skipped: it starts nothing and changes nothing of the oracle.
C14_OneTickAtATime ==
    /\ [][(pc' = "created" /\ (pc' # pc \/ fltFrom' # fltFrom)) =>
              pc = "idle"]_vars
    /\ [][(lastDue' = "skipped" /\ lastDue # "skipped") =>
              (pc # "idle" /\ UNCHANGED <<chainVars, procVars, histVars>>)]_vars

\* C14 witness: a run came due and was skipped while the tick in progress
\* waits for the receipt of a broadcast transaction.
C14_Witness ==
    /\ lastDue = "skipped"
    /\ pc = "await"
    /\ sent[curTx].st = "pending"

C17_SaltCheckedBeforeSeize ==
    \A i, j \in 1..Len(sent) :
        (/\ i < j
         /\ sent[i].h = sent[j].h
         /\ sent[i].fn = "verifyIntent"
         /\ sent[i].obs = "ok"
         /\ check_contract_salt(sent[i].salt)
         /\ sent[j].fn = "seizeAssets")
            => check_contract_salt(sent[j].salt)

\* C18 -- every entry get_new_entries returned to a tick is passed to
\* handle_intent: when control leaves the loop of monitor_job, no entry beyond
\* the one being handled is left.
C18_AllEventsOfTickHandled ==
    [][(pc = "loop" /\ pc' = "idle") => Len(queue) <= 1]_vars

\* The identifier handle_intent is handling or is about to be called with.
InHandleIntent(h) ==
    \/ Handling(h)
    \/ pc = "loop" /\ queue # <<>> /\ eventLog[Head(queue)] = h

\* handle_intent is called with an identifier that is in the processed set.
HandlesProcessed ==
    /\ pc = "loop"
    /\ queue # <<>>
    /\ eventLog[Head(queue)] \in processed
    /\ queue' = Tail(queue)

\* C20 -- the processed set only grows; a step that changes it is a step of
\* handle_intent and adds exactly the identifier being handled; an identifier
\* in the set was audited; handling an identifier that is already in the set
\* changes neither the set nor the chain (log, contract, account nonce,
\* transactions broadcast).
C20_ProcessedFrame ==
    /\ [][/\ processed \subseteq processed'
          /\ processed' # processed =>
                 \E h \in Hashes : InHandleIntent(h)
                                   /\ h \notin processed
                                   /\ processed' = processed \cup {h}
          /\ HandlesProcessed => UNCHANGED <<processed, chainVars>>]_vars
    /\ [](\A h \in processed : auditCount[h] >= 1)

\* C20 witness: both identifiers are in the set, each added once, and a log
\* of an identifier already in the set was passed to handle_intent again (the
\* key is usable, so the first call for it returned).
C20_Witness ==
    /\ keyUsable
    /\ processed = Hashes
    /\ \A h \in Hashes : addCount[h] = 1
    /\ \E i \in 1..Len(eventLog) : delivered[i] = 2

====
